---- MODULE Spec2Model ----
(***************************************************************************)
(* Model of src/pipeline.py: validate_dataset, CorpusManager and           *)
(* TextProcessingPipeline, and the driver main().                          *)
(*                                                                         *)
(* File names are sequences of one-character strings, so that the regular  *)
(* expression \d+, Path.stem, int() and the f-strings of the code are      *)
(* computed and not assumed.  Texts are sequences of chunks (a word, a     *)
(* blank, a punctuation mark, a newline).                                  *)
(***************************************************************************)
EXTENDS Integers, Sequences, FiniteSets, TLC

VARIABLES
    entry,            \* the function the caller invoked
    pathKind,         \* what ASSETS_PATH / path_to_validate is on disk
    dir,              \* directory content: present name -> st_size
    pc,               \* position in the code
    err,              \* exception that left the entry function, or "none"
    vres,             \* outcome of validate_dataset
    sres,             \* outcome of CorpusManager.__init__
    unvisited,        \* entries the running glob('*') has not yielded yet
    inspected,        \* entries validate_dataset has called os.stat on
    indices,          \* validate_dataset: indices
    previous_index,   \* validate_dataset: previous_index
    new_indices,      \* validate_dataset: part of new_indices still to loop over
    _storage,         \* CorpusManager._storage (insertion-ordered dict)
    articles,         \* run: articles still to iterate over
    article,          \* run: the current article (its article_id), 0 before the loop
    raw_text,         \* run: raw_text
    items,            \* _process: analyzed_cleaned_text
    idx,              \* _process / run: position of the running for loop
    tokens,           \* _process: tokens, then run: tokens
    emitted,          \* for each element of tokens, the position in items it came from
    cleaned_tokens,   \* run: cleaned_tokens
    single_tagged,    \* run: single_tagged
    multiple_tagged,  \* run: multiple_tagged
    annotated,        \* article_id -> the token list _process returned for it
    failed_article,   \* article_id during which a collaborator raised, 0 if none
    trace             \* get_raw_text and save_as calls, in order

vars == <<entry, pathKind, dir, pc, err, vres, sres, unvisited, inspected,
          indices, previous_index, new_indices, _storage, articles, article,
          raw_text, items, idx, tokens, emitted, cleaned_tokens, single_tagged,
          multiple_tagged, annotated, failed_article, trace>>

\* Largest article number a file name of the modelled directory carries.
MaxId == 3

\* Largest number of entries of the modelled directory.
MaxEntries == 6

-----------------------------------------------------------------------------
(* Strings of file names *)

DigitChars == <<"0", "1", "2", "3", "4", "5", "6", "7", "8", "9">>

IsDigit(c) == \E d \in 1..10 : DigitChars[d] = c

DigitVal(c) == (CHOOSE d \in 1..10 : DigitChars[d] = c) - 1

\* f'{index}': the decimal digits of a non-negative integer
RECURSIVE Str(_)
Str(n) == IF n < 10 THEN <<DigitChars[n + 1]>>
          ELSE Str(n \div 10) \o <<DigitChars[(n % 10) + 1]>>

\* int(s) of a digit string
RECURSIVE IntOf(_)
IntOf(s) == IF s = <<>> THEN 0
            ELSE 10 * IntOf(SubSeq(s, 1, Len(s) - 1)) + DigitVal(s[Len(s)])

\* the longest prefix of s made of digits
RECURSIVE LeadingDigits(_)
LeadingDigits(s) == IF s = <<>> \/ ~IsDigit(s[1]) THEN <<>>
                    ELSE <<s[1]>> \o LeadingDigits(Tail(s))

\* re.compile(r'\d+').match(s): a match object or None
digit_match(s) == LET g == LeadingDigits(s)
                  IN  [matched |-> g # <<>>, group |-> g]

\* Path.stem: the name without its last suffix
LastDot(s) == IF \E i \in 1..Len(s) : s[i] = "."
              THEN CHOOSE i \in 1..Len(s) :
                       s[i] = "." /\ \A j \in (i + 1)..Len(s) : s[j] # "."
              ELSE 0

stem(s) == LET i == LastDot(s)
           IN  IF 1 < i /\ i < Len(s) THEN SubSeq(s, 1, i - 1) ELSE s

RawSuffix == <<"_", "r", "a", "w", ".", "t", "x", "t">>
MetaSuffix == <<"_", "m", "e", "t", "a", ".", "j", "s", "o", "n">>

raw_path(index) == Str(index) \o RawSuffix
meta_path(index) == Str(index) \o MetaSuffix

\* File names the modelled directory may hold: the pairs of 1..MaxId, a raw
\* file numbered with a leading zero, and a file whose name has no number.
PaddedRawName == <<"0", "1">> \o RawSuffix
NotesName == <<"n", "o", "t", "e", "s", ".", "t", "x", "t">>

Names == {raw_path(i) : i \in 1..MaxId} \cup {meta_path(i) : i \in 1..MaxId}
         \cup {PaddedRawName, NotesName}

\* st_size of a file: zero or positive
Sizes == {0, 1}

Dirs == UNION {[S -> Sizes] : S \in {T \in SUBSET Names : Cardinality(T) <= MaxEntries}}

exists(d, name) == name \in DOMAIN d

-----------------------------------------------------------------------------
(* Helpers of validate_dataset *)

PathErrorMutant(kind) ==
    IF kind # "dir" THEN "NotADirectoryError"
    ELSE IF kind = "missing" THEN "FileNotFoundError"
    ELSE "none"

\* lines 150-153
PathError(kind) ==
    IF kind = "missing" THEN "FileNotFoundError"
    ELSE IF kind # "dir" THEN "NotADirectoryError"
    ELSE "none"

RECURSIVE Insert(_, _)
Insert(x, s) == IF s = <<>> THEN <<x>>
                ELSE IF x <= s[1] THEN <<x>> \o s
                ELSE <<s[1]>> \o Insert(x, Tail(s))

RECURSIVE sorted(_)
sorted(s) == IF s = <<>> THEN <<>> ELSE Insert(s[1], sorted(Tail(s)))

InSeq(x, s) == \E i \in 1..Len(s) : s[i] = x

GapErrorNever(index, previous) == index - previous < 1

GapErrorAlways(index, previous) == index - previous # 0

\* line 172
GapError(index, previous) == index - previous # 1

PairMissingMutant(d, index) ==
    ~exists(d, raw_path(index)) /\ ~exists(d, meta_path(index))

\* lines 175-177
PairMissing(d, index) ==
    ~exists(d, raw_path(index)) \/ ~exists(d, meta_path(index))

-----------------------------------------------------------------------------
(* Helpers of CorpusManager *)

\* Article(None, article_id)
Article(url, article_id) == [url |-> url, article_id |-> article_id]

\* self._storage[key] = value on an insertion-ordered dict
StorageSet(st, key, value) ==
    IF \E i \in 1..Len(st) : st[i].key = key
    THEN [i \in 1..Len(st) |->
             IF st[i].key = key THEN [key |-> key, value |-> value] ELSE st[i]]
    ELSE Append(st, [key |-> key, value |-> value])

Keys(st) == {st[i].key : i \in 1..Len(st)}

-----------------------------------------------------------------------------
(* Texts and the two taggers *)

\* Contents a raw file may have.
Texts == { <<"Mama", " ", "myla", "\n", "Ramu", ",">>,
           <<"Ramu", " ", "Kk", " ", "qq", "Mama">>,
           <<"Zz", "Ww", "Ee", " ", "myla">>,
           <<"\n">> }

\* raw_text.replace('\n', '')
RECURSIVE replace_newline(_)
replace_newline(t) ==
    IF t = <<>> THEN <<>>
    ELSE IF t[1] = "\n" THEN replace_newline(Tail(t))
    ELSE <<t[1]>> \o replace_newline(Tail(t))

\* One item of Mystem().analyze for one chunk.  The chunks cover every shape
\* of item the guards of _process tell apart.
MystemItem(c) ==
    CASE c = "Mama" -> [text |-> "Mama",
                        analysis |-> <<[lex |-> "mama", gr |-> "S,f"]>>]
      [] c = "myla" -> [text |-> "myla",
                        analysis |-> <<[lex |-> "myt", gr |-> "V"]>>]
      [] c = "Ramu" -> [text |-> "Ramu",
                        analysis |-> <<[lex |-> "rama", gr |-> "S,acc"],
                                       [lex |-> "ram", gr |-> "S,dat"]>>]
      [] c = "Kk"   -> [text |-> "Kk",
                        analysis |-> <<[lex |-> "kk", gr |-> "S"]>>]
      [] c = "qq"   -> [text |-> "qq", analysis |-> <<>>]
      [] c = "Zz"   -> [text |-> "Zz", analysis |-> <<[lex |-> "zz"]>>]
      [] c = "Ww"   -> [analysis |-> <<[lex |-> "ww", gr |-> "S"]>>]
      [] c = "Ee"   -> [text |-> "", analysis |-> <<[lex |-> "ee", gr |-> "S"]>>]
      [] OTHER      -> [text |-> c]

\* Mystem().analyze(cleaned_text)
analyze(t) == [i \in 1..Len(t) |-> MystemItem(t[i])]

\* MorphAnalyzer().parse(word): the tags of the candidates, best first
parse(word) ==
    CASE word = "Mama" -> <<"NOUN,femn">>
      [] word = "myla" -> <<"VERB,past", "NOUN,gent">>
      [] word = "Ramu" -> <<"NOUN,accs">>
      [] word = ""     -> <<"UNKN">>
      [] word = "Zz"   -> <<"LATN">>
      [] OTHER         -> <<>>

\* str.lower
lower(w) ==
    CASE w = "Mama" -> "mama"
      [] w = "Ramu" -> "ramu"
      [] w = "Kk"   -> "kk"
      [] w = "Zz"   -> "zz"
      [] OTHER      -> w

\* ' '.join(list)
RECURSIVE join(_)
join(s) == IF s = <<>> THEN ""
           ELSE IF Len(s) = 1 THEN s[1]
           ELSE s[1] \o " " \o join(Tail(s))

-----------------------------------------------------------------------------
(* MorphologicalToken *)

MorphologicalToken(original_word) ==
    [original_word |-> original_word, normalized_form |-> "",
     tags_mystem |-> "", tags_pymorphy |-> ""]

get_cleaned(t) == lower(t.original_word)

get_single_tagged(t) == t.normalized_form \o "<" \o t.tags_mystem \o ">"

get_multiple_tagged(t) ==
    t.normalized_form \o "<" \o t.tags_mystem \o ">(" \o t.tags_pymorphy \o ")"

SkipItemMutant(token) ==
    \/ "analysis" \notin DOMAIN token
    \/ token.analysis = <<>>
    \/ "lex" \notin DOMAIN token.analysis[1]
    \/ "gr" \notin DOMAIN token.analysis[1]
    \/ "text" \notin DOMAIN token

\* lines 127-133: the two `continue` guards on the item itself
SkipItem(token) ==
    \/ "analysis" \notin DOMAIN token
    \/ token.analysis = <<>>
    \/ "lex" \notin DOMAIN token.analysis[1]
    \/ "gr" \notin DOMAIN token.analysis[1]
    \/ "text" \notin DOMAIN token
    \/ token.text = ""

-----------------------------------------------------------------------------
(* Helpers of run and main *)

NewBufferMutant(old) == old

\* lines 105-107: the three lists are created anew for every article
NewBuffer(old) == <<>>

SaveCallsMutant == <<"cleaned", "single_tagged">>

\* lines 114-116: the save_as calls, in order
SaveCalls == <<"cleaned", "single_tagged", "multiple_tagged">>

mainAbortsMutant(e) == FALSE

\* lines 184-187: main has no try statement, an exception ends it
mainAborts(e) == e # "none"

runAbortsMutant(e) == FALSE

\* lines 108-109: run and _process have no try statement
runAborts(e) == e # "none"

ReadEvent(id) == [op |-> "get_raw_text", id |-> id, kind |-> "", text |-> ""]

SaveEvent(id, kind, text) == [op |-> "save_as", id |-> id, kind |-> kind, text |-> text]

-----------------------------------------------------------------------------
(* Initial states *)

EmptyDir == [n \in {} |-> 0]

InitLocals ==
    /\ err = "none"
    /\ vres = "pending"
    /\ sres = "pending"
    /\ unvisited = {}
    /\ inspected = {}
    /\ indices = <<>>
    /\ previous_index = 0
    /\ new_indices = <<>>
    /\ _storage = <<>>
    /\ articles = <<>>
    /\ article = 0
    /\ raw_text = <<>>
    /\ items = <<>>
    /\ idx = 1
    /\ tokens = <<>>
    /\ emitted = <<>>
    /\ cleaned_tokens = <<>>
    /\ single_tagged = <<>>
    /\ multiple_tagged = <<>>
    /\ annotated = <<>>
    /\ failed_article = 0
    /\ trace = <<>>

\* The path is missing, a regular file, or a directory with any content.
InitDisk ==
    /\ pathKind \in {"missing", "file", "dir"}
    /\ dir \in Dirs
    /\ pathKind # "dir" => dir = EmptyDir

\* validate_dataset(path) called on its own
InitValidate ==
    /\ entry = "validate_dataset"
    /\ pc = "validate"
    /\ InitDisk
    /\ InitLocals

\* CorpusManager(path) constructed on its own, on a directory that was not
\* validated.  _scan_dataset never reads a size: every file is non-empty here.
InitScan ==
    /\ entry = "CorpusManager"
    /\ pc = "scan"
    /\ InitDisk
    /\ \A n \in DOMAIN dir : dir[n] = 1
    /\ InitLocals

\* main()
InitMain ==
    /\ entry = "main"
    /\ pc = "validate"
    /\ InitDisk
    /\ InitLocals

-----------------------------------------------------------------------------
(* validate_dataset *)

uValidate == <<entry, pathKind, dir, err, sres, _storage, articles, article,
               raw_text, items, idx, tokens, emitted, cleaned_tokens,
               single_tagged, multiple_tagged, annotated, failed_article, trace>>

\* raise e inside validate_dataset
ValidateRaise(e) ==
    /\ vres' = e
    /\ pc' = "v_done"

\* lines 149-155
ValidatePath ==
    /\ pc = "validate"
    /\ LET e == PathError(pathKind)
       IN  IF e # "none"
           THEN /\ ValidateRaise(e)
                /\ UNCHANGED <<unvisited, indices>>
           ELSE /\ pc' = "v_glob"
                /\ unvisited' = DOMAIN dir
                /\ indices' = <<>>
                /\ UNCHANGED vres
    /\ UNCHANGED <<inspected, previous_index, new_indices>>
    /\ UNCHANGED uValidate

\* lines 156-164: one iteration of the loop over glob('*'), which yields the
\* entries in an order the file system chooses
ValidateGlobStep ==
    /\ pc = "v_glob"
    /\ \E files \in unvisited :
        /\ unvisited' = unvisited \ {files}
        /\ inspected' = inspected \cup {files}
        /\ IF dir[files] = 0
           THEN ValidateRaise("InconsistentDatasetError") /\ UNCHANGED indices
           ELSE LET digit == digit_match(stem(files))
                IN  IF ~digit.matched
                    THEN ValidateRaise("InconsistentDatasetError") /\ UNCHANGED indices
                    ELSE LET index == IntOf(digit.group)
                         IN  /\ indices' = IF InSeq(index, indices) THEN indices
                                           ELSE Append(indices, index)
                             /\ UNCHANGED <<pc, vres>>
    /\ UNCHANGED <<previous_index, new_indices>>
    /\ UNCHANGED uValidate

\* lines 165-170
ValidateGlobEnd ==
    /\ pc = "v_glob"
    /\ unvisited = {}
    /\ IF indices = <<>>
       THEN ValidateRaise("EmptyDirectoryError") /\ UNCHANGED <<previous_index, new_indices>>
       ELSE IF sorted(indices)[1] # 1
       THEN ValidateRaise("InconsistentDatasetError") /\ UNCHANGED <<previous_index, new_indices>>
       ELSE /\ previous_index' = 0
            /\ new_indices' = sorted(indices)
            /\ pc' = "v_check"
            /\ UNCHANGED vres
    /\ UNCHANGED <<unvisited, inspected, indices>>
    /\ UNCHANGED uValidate

\* lines 171-178: one iteration of the loop over new_indices
ValidateCheckStep ==
    /\ pc = "v_check"
    /\ new_indices # <<>>
    /\ LET index == Head(new_indices)
       IN  IF GapError(index, previous_index)
           THEN ValidateRaise("InconsistentDatasetError")
                /\ UNCHANGED <<previous_index, new_indices>>
           ELSE /\ previous_index' = index
                /\ IF PairMissing(dir, index)
                   THEN ValidateRaise("InconsistentDatasetError") /\ UNCHANGED new_indices
                   ELSE new_indices' = Tail(new_indices) /\ UNCHANGED <<pc, vres>>
    /\ UNCHANGED <<unvisited, inspected, indices>>
    /\ UNCHANGED uValidate

\* the loop is exhausted and validate_dataset returns None
ValidateReturn ==
    /\ pc = "v_check"
    /\ new_indices = <<>>
    /\ vres' = "returned"
    /\ pc' = "v_done"
    /\ UNCHANGED <<unvisited, inspected, indices, previous_index, new_indices>>
    /\ UNCHANGED uValidate

-----------------------------------------------------------------------------
(* CorpusManager *)

uScan == <<entry, pathKind, dir, err, vres, inspected, indices, previous_index,
           new_indices, articles, article, raw_text, items, idx, tokens, emitted,
           cleaned_tokens, single_tagged, multiple_tagged, annotated,
           failed_article, trace>>

\* lines 66-69 and 75-76
ScanStart ==
    /\ pc = "scan"
    /\ _storage' = <<>>
    /\ unvisited' = DOMAIN dir
    /\ pc' = "s_glob"
    /\ UNCHANGED sres
    /\ UNCHANGED uScan

\* lines 77-82: one iteration of the loop over glob('*').  digit.match gives
\* None for a name without a leading digit, and None has no group().
ScanStep ==
    /\ pc = "s_glob"
    /\ \E file \in unvisited :
        /\ unvisited' = unvisited \ {file}
        /\ LET m == digit_match(file)
           IN  IF ~m.matched
               THEN /\ sres' = "AttributeError"
                    /\ pc' = "s_done"
                    /\ UNCHANGED _storage
               ELSE LET article_id == m.group
                    IN  /\ _storage' =
                              IF article_id = <<>> THEN _storage
                              ELSE StorageSet(_storage, IntOf(article_id),
                                              Article("None", IntOf(article_id)))
                        /\ UNCHANGED <<pc, sres>>
    /\ UNCHANGED uScan

\* the loop is exhausted and the constructor returns
ScanEnd ==
    /\ pc = "s_glob"
    /\ unvisited = {}
    /\ sres' = "returned"
    /\ pc' = "s_done"
    /\ UNCHANGED <<unvisited, _storage>>
    /\ UNCHANGED uScan

-----------------------------------------------------------------------------
(* main *)

uMain == <<entry, pathKind, dir, vres, sres, unvisited, inspected, indices,
           previous_index, new_indices, _storage, article, raw_text, items, idx,
           tokens, emitted, cleaned_tokens, single_tagged, multiple_tagged,
           annotated, failed_article, trace>>

\* lines 184-185: validate_dataset(ASSETS_PATH) is over
MainAfterValidate ==
    /\ entry = "main"
    /\ pc = "v_done"
    /\ IF vres # "returned" /\ mainAborts(vres)
       THEN err' = vres /\ pc' = "done"
       ELSE pc' = "scan" /\ UNCHANGED err
    /\ UNCHANGED articles
    /\ UNCHANGED uMain

\* lines 185-187 and 103: CorpusManager(ASSETS_PATH) is over, run() starts
MainAfterScan ==
    /\ entry = "main"
    /\ pc = "s_done"
    /\ IF sres # "returned" /\ mainAborts(sres)
       THEN err' = sres /\ pc' = "done" /\ UNCHANGED articles
       ELSE /\ articles' = [i \in 1..Len(_storage) |-> _storage[i].value]
            /\ pc' = "r_next"
            /\ UNCHANGED err
    /\ UNCHANGED uMain

-----------------------------------------------------------------------------
(* TextProcessingPipeline.run and _process *)

uDisk == <<entry, pathKind, dir, vres, sres, unvisited, inspected, indices,
           previous_index, new_indices, _storage>>

\* a collaborator raised e while the current article was processed
CollaboratorRaises(e) ==
    /\ failed_article' = article
    /\ IF runAborts(e)
       THEN /\ err' = e
            /\ pc' = "done"
            /\ UNCHANGED <<items, idx, tokens, emitted>>
       ELSE /\ items' = <<>>
            /\ idx' = 1
            /\ tokens' = <<>>
            /\ emitted' = <<>>
            /\ pc' = "r_append"
            /\ UNCHANGED err

\* lines 104-107: the next article of the loop, with three new lists
RunNextArticle ==
    /\ pc = "r_next"
    /\ articles # <<>>
    /\ article' = Head(articles).article_id
    /\ articles' = Tail(articles)
    /\ cleaned_tokens' = NewBuffer(cleaned_tokens)
    /\ single_tagged' = NewBuffer(single_tagged)
    /\ multiple_tagged' = NewBuffer(multiple_tagged)
    /\ pc' = "r_read"
    /\ UNCHANGED <<err, raw_text, items, idx, tokens, emitted, annotated,
                   failed_article, trace>>
    /\ UNCHANGED uDisk

\* line 108: article.get_raw_text() returns the content of the raw file
RunGetRawText ==
    /\ pc = "r_read"
    /\ \E text \in Texts : raw_text' = text
    /\ trace' = Append(trace, ReadEvent(article))
    /\ pc' = "r_process"
    /\ UNCHANGED <<err, articles, article, items, idx, tokens, emitted,
                   cleaned_tokens, single_tagged, multiple_tagged, annotated,
                   failed_article>>
    /\ UNCHANGED uDisk

\* line 108: article.get_raw_text() raises
RunGetRawTextFails ==
    /\ pc = "r_read"
    /\ CollaboratorRaises("CollaboratorError")
    /\ UNCHANGED <<articles, article, raw_text, cleaned_tokens, single_tagged,
                   multiple_tagged, annotated, trace>>
    /\ UNCHANGED uDisk

\* lines 122-125
ProcessAnalyze ==
    /\ pc = "r_process"
    /\ items' = analyze(replace_newline(raw_text))
    /\ tokens' = <<>>
    /\ emitted' = <<>>
    /\ idx' = 1
    /\ pc' = "p_loop"
    /\ UNCHANGED <<err, articles, article, raw_text, cleaned_tokens,
                   single_tagged, multiple_tagged, annotated, failed_article,
                   trace>>
    /\ UNCHANGED uDisk

\* line 123: Mystem().analyze raises
ProcessAnalyzeFails ==
    /\ pc = "r_process"
    /\ CollaboratorRaises("TaggerError")
    /\ UNCHANGED <<articles, article, raw_text, cleaned_tokens, single_tagged,
                   multiple_tagged, annotated, trace>>
    /\ UNCHANGED uDisk

\* lines 126-141: one iteration of the loop over analyzed_cleaned_text
ProcessItem ==
    /\ pc = "p_loop"
    /\ idx <= Len(items)
    /\ idx' = idx + 1
    /\ LET token == items[idx]
       IN  IF SkipItem(token)
           THEN UNCHANGED <<tokens, emitted>>
           ELSE LET parse_word == parse(token.text)
                IN  IF parse_word = <<>>
                    THEN UNCHANGED <<tokens, emitted>>
                    ELSE /\ tokens' = Append(tokens,
                                [MorphologicalToken(token.text) EXCEPT
                                    !.normalized_form = token.analysis[1].lex,
                                    !.tags_mystem = token.analysis[1].gr,
                                    !.tags_pymorphy = parse_word[1]])
                         /\ emitted' = Append(emitted, idx)
    /\ UNCHANGED <<pc, err, articles, article, raw_text, items, cleaned_tokens,
                   single_tagged, multiple_tagged, annotated, failed_article,
                   trace>>
    /\ UNCHANGED uDisk

\* line 137: morph.parse raises
ProcessParseFails ==
    /\ pc = "p_loop"
    /\ idx <= Len(items)
    /\ ~SkipItem(items[idx])
    /\ CollaboratorRaises("TaggerError")
    /\ UNCHANGED <<articles, article, raw_text, cleaned_tokens, single_tagged,
                   multiple_tagged, annotated, trace>>
    /\ UNCHANGED uDisk

\* lines 142 and 109: _process returns tokens
ProcessReturn ==
    /\ pc = "p_loop"
    /\ idx > Len(items)
    /\ annotated' = (article :> tokens) @@ annotated
    /\ idx' = 1
    /\ pc' = "r_append"
    /\ UNCHANGED <<err, articles, article, raw_text, items, tokens, emitted,
                   cleaned_tokens, single_tagged, multiple_tagged,
                   failed_article, trace>>
    /\ UNCHANGED uDisk

\* lines 110-113: the loop over tokens
RunAppend ==
    /\ pc = "r_append"
    /\ cleaned_tokens' = cleaned_tokens \o
           [i \in 1..Len(tokens) |-> get_cleaned(tokens[i])]
    /\ single_tagged' = single_tagged \o
           [i \in 1..Len(tokens) |-> get_single_tagged(tokens[i])]
    /\ multiple_tagged' = multiple_tagged \o
           [i \in 1..Len(tokens) |-> get_multiple_tagged(tokens[i])]
    /\ idx' = 1
    /\ pc' = "r_save"
    /\ UNCHANGED <<err, articles, article, raw_text, items, tokens, emitted,
                   annotated, failed_article, trace>>
    /\ UNCHANGED uDisk

\* the list a save_as call of lines 114-116 joins
BufferOf(kind) ==
    IF kind = "cleaned" THEN cleaned_tokens
    ELSE IF kind = "single_tagged" THEN single_tagged
    ELSE multiple_tagged

\* lines 114-116: one save_as call
RunSave ==
    /\ pc = "r_save"
    /\ idx <= Len(SaveCalls)
    /\ trace' = Append(trace,
           SaveEvent(article, SaveCalls[idx], join(BufferOf(SaveCalls[idx]))))
    /\ idx' = idx + 1
    /\ pc' = IF idx = Len(SaveCalls) THEN "r_next" ELSE "r_save"
    /\ UNCHANGED <<err, articles, article, raw_text, items, tokens, emitted,
                   cleaned_tokens, single_tagged, multiple_tagged, annotated,
                   failed_article>>
    /\ UNCHANGED uDisk

\* the loop over articles is exhausted: run returns, and main with it
RunReturn ==
    /\ pc = "r_next"
    /\ articles = <<>>
    /\ pc' = "done"
    /\ UNCHANGED <<err, articles, article, raw_text, items, idx, tokens,
                   emitted, cleaned_tokens, single_tagged, multiple_tagged,
                   annotated, failed_article, trace>>
    /\ UNCHANGED uDisk

-----------------------------------------------------------------------------
(* Specifications *)

NextValidate ==
    \/ ValidatePath
    \/ ValidateGlobStep
    \/ ValidateGlobEnd
    \/ ValidateCheckStep
    \/ ValidateReturn

NextScan ==
    \/ ScanStart
    \/ ScanStep
    \/ ScanEnd

Next ==
    \/ ValidatePath
    \/ ValidateGlobStep
    \/ ValidateGlobEnd
    \/ ValidateCheckStep
    \/ ValidateReturn
    \/ MainAfterValidate
    \/ ScanStart
    \/ ScanStep
    \/ ScanEnd
    \/ MainAfterScan
    \/ RunNextArticle
    \/ RunGetRawText
    \/ RunGetRawTextFails
    \/ ProcessAnalyze
    \/ ProcessAnalyzeFails
    \/ ProcessItem
    \/ ProcessParseFails
    \/ ProcessReturn
    \/ RunAppend
    \/ RunSave
    \/ RunReturn

\* validate_dataset called on any path
SpecValidate == InitValidate /\ [][NextValidate]_vars

\* CorpusManager constructed on any directory
SpecScan == InitScan /\ [][NextScan]_vars

\* main()
Spec == InitMain /\ [][Next]_vars

-----------------------------------------------------------------------------
(* Properties *)

\* the distinct leading integers of the names of the directory's entries
LeadingInts ==
    {IntOf(LeadingDigits(n)) : n \in {m \in DOMAIN dir : LeadingDigits(m) # <<>>}}

IsOneToN(S) == S # {} /\ S = 1..Cardinality(S)

PairNames(N) == {raw_path(i) : i \in 1..N} \cup {meta_path(i) : i \in 1..N}

AllNonEmpty == \A n \in DOMAIN dir : dir[n] > 0

ValidateOver == pc = "v_done" /\ pathKind = "dir"

\* the view of a token that a save_as call of the given kind joins
ViewOf(kind, t) ==
    IF kind = "cleaned" THEN get_cleaned(t)
    ELSE IF kind = "single_tagged" THEN get_single_tagged(t)
    ELSE get_multiple_tagged(t)

SavedKinds(id) ==
    {trace[i].kind : i \in {j \in 1..Len(trace) :
                               trace[j].op = "save_as" /\ trace[j].id = id}}

\* C1: validate_dataset returns normally on every directory whose entries are
\* exactly i_raw.txt and i_meta.json for i in 1..N, N >= 1, all non-empty.
C1_CompleteDatasetAccepted ==
    (/\ ValidateOver
     /\ \E N \in 1..MaxId : DOMAIN dir = PairNames(N)
     /\ AllNonEmpty)
    => vres = "returned"

C1_Witness ==
    /\ ValidateOver
    /\ DOMAIN dir = PairNames(2)
    /\ AllNonEmpty
    /\ vres = "returned"

\* C2: on a directory with at least one entry whose distinct leading integers
\* are not exactly 1..N, validate_dataset raises InconsistentDatasetError.
\* (Stated by contraposition: an outcome other than InconsistentDatasetError
\* on such a directory means the leading integers are exactly 1..N.)
C2_NumberingRejected ==
    (/\ ValidateOver
     /\ DOMAIN dir # {}
     /\ vres # "InconsistentDatasetError")
    => IsOneToN(LeadingInts)

\* the numbering gap {1, 3}, found by the loop over new_indices
C2_Witness ==
    /\ ValidateOver
    /\ DOMAIN dir = {raw_path(1), meta_path(1), raw_path(3), meta_path(3)}
    /\ AllNonEmpty
    /\ previous_index = 1
    /\ vres = "InconsistentDatasetError"

\* C3: if some identifier found in the directory lacks its raw file or its
\* meta file, or has an empty raw file, validate_dataset raises
\* InconsistentDatasetError.
\* (Stated as the claim's "unless": any other outcome means every identifier
\* has both files and a non-empty raw file.)
C3_IncompletePairRejected ==
    (/\ ValidateOver
     /\ vres # "InconsistentDatasetError")
    => \A i \in LeadingInts :
           /\ exists(dir, raw_path(i))
           /\ exists(dir, meta_path(i))
           /\ dir[raw_path(i)] > 0

\* a raw file without its meta file, found by the check of lines 175-178
C3_Witness ==
    /\ ValidateOver
    /\ DOMAIN dir = {raw_path(1), meta_path(1), raw_path(2)}
    /\ AllNonEmpty
    /\ new_indices = <<2>>
    /\ vres = "InconsistentDatasetError"

\* C4 as stated: on a path that does not exist validate_dataset raises
\* PathNotFoundError, before any directory entry is inspected.
C4_AsStated ==
    (pc = "v_done" /\ pathKind = "missing")
    => (vres = "PathNotFoundError" /\ inspected = {})

\* C4 amended: on a path that does not exist validate_dataset raises the
\* built-in FileNotFoundError, before any directory entry is inspected.
C4_MissingPathRaisesFileNotFound ==
    (pc = "v_done" /\ pathKind = "missing")
    => (vres = "FileNotFoundError" /\ inspected = {} /\ indices = <<>>)

C4_Witness ==
    /\ pc = "v_done"
    /\ pathKind = "missing"
    /\ vres = "FileNotFoundError"

\* C5: every string saved for an article is the join of the views of the
\* tokens _process returned for that article's own raw text, and of nothing
\* else.
C5_Isolation ==
    \A i \in 1..Len(trace) :
        trace[i].op = "save_as" =>
            /\ trace[i].id \in DOMAIN annotated
            /\ LET own == annotated[trace[i].id]
               IN  trace[i].text =
                       join([j \in 1..Len(own) |-> ViewOf(trace[i].kind, own[j])])

\* a second article is saved after a first one that had tokens
C5_Witness ==
    \E i, j \in 1..Len(trace) :
        /\ i < j
        /\ trace[i].op = "save_as"
        /\ trace[j].op = "save_as"
        /\ trace[i].id # trace[j].id
        /\ trace[i].text # ""
        /\ trace[j].kind = "multiple_tagged"
        /\ trace[j].text # ""

\* C6: a token record is emitted only for an item with a non-empty text, at
\* least one analysis candidate and at least one parse candidate; the records
\* keep the order of the items; an item without analysis candidates or
\* without parse candidates gives no record and no entry of the three lists.
C6_DroppedTokens ==
    /\ Len(emitted) = Len(tokens)
    /\ \A j \in 1..Len(emitted) :
           /\ emitted[j] \in 1..Len(items)
           /\ LET it == items[emitted[j]]
              IN  /\ "text" \in DOMAIN it
                  /\ it.text # ""
                  /\ "analysis" \in DOMAIN it
                  /\ it.analysis # <<>>
                  /\ parse(it.text) # <<>>
                  /\ tokens[j].original_word = it.text
    /\ \A j \in 1..(Len(emitted) - 1) : emitted[j] < emitted[j + 1]
    /\ pc = "r_save" =>
           /\ Len(cleaned_tokens) = Len(emitted)
           /\ Len(single_tagged) = Len(emitted)
           /\ Len(multiple_tagged) = Len(emitted)
           /\ \A j \in 1..Len(emitted) :
                  /\ cleaned_tokens[j] = lower(items[emitted[j]].text)
                  /\ single_tagged[j] = get_single_tagged(tokens[j])
                  /\ multiple_tagged[j] = get_multiple_tagged(tokens[j])

\* items without candidates and without parses were dropped between two
\* emitted records
C6_Witness ==
    /\ pc = "r_save"
    /\ Len(items) = 6
    /\ items[3].text = "Kk"
    /\ items[5].analysis = <<>>
    /\ emitted = <<1, 6>>
    /\ cleaned_tokens = <<"ramu", "mama">>

\* C7: in a run that completes without error, for every article of the
\* registry the raw text is read once and then the three artifacts are
\* written, before the raw text of the next article is read.
C7_ReadOnceSaveThree ==
    (entry = "main" /\ pc = "done" /\ err = "none") =>
        /\ Len(trace) = 4 * Len(_storage)
        /\ \A k \in 1..Len(_storage) :
               LET r == trace[4 * k - 3]
               IN  /\ r.op = "get_raw_text"
                   /\ r.id \in Keys(_storage)
                   /\ \A n \in 1..3 :
                          /\ trace[4 * k - 3 + n].op = "save_as"
                          /\ trace[4 * k - 3 + n].id = r.id
                          /\ trace[4 * k - 3 + n].kind =
                                 <<"cleaned", "single_tagged", "multiple_tagged">>[n]
        /\ \A k, l \in 1..Len(_storage) :
               k # l => trace[4 * k - 3].id # trace[4 * l - 3].id

C7_Witness ==
    /\ entry = "main"
    /\ pc = "done"
    /\ err = "none"
    /\ Len(_storage) = 2
    /\ Len(trace) = 8

\* C8: in main, validation comes first; if validate_dataset raises, no
\* registry is constructed, no raw text is read and no artifact is written.
C8_ValidationFirst ==
    entry = "main" =>
        /\ vres = "pending" =>
               /\ pc \in {"validate", "v_glob", "v_check"}
               /\ sres = "pending" /\ _storage = <<>> /\ trace = <<>>
        /\ vres \notin {"pending", "returned"} =>
               /\ pc \in {"v_done", "done"}
               /\ sres = "pending" /\ _storage = <<>> /\ trace = <<>>
               /\ pc = "done" => err = vres

\* validation failed on a directory that holds numbered files
C8_Witness ==
    /\ entry = "main"
    /\ pc = "done"
    /\ vres = "InconsistentDatasetError"
    /\ err = vres
    /\ LeadingInts # {}

\* C9: a collaborator failure while article k is processed is not caught: the
\* run is over with that error, nothing of article k is written, and every
\* article processed before k has its three artifacts.
C9_FailureAborts ==
    failed_article # 0 =>
        /\ pc = "done"
        /\ err # "none"
        /\ SavedKinds(failed_article) = {}
        /\ \A i \in 1..Len(trace) :
               (trace[i].op = "get_raw_text" /\ trace[i].id # failed_article)
               => SavedKinds(trace[i].id) = {"cleaned", "single_tagged", "multiple_tagged"}

\* a tagger failed on the second article
C9_Witness ==
    /\ failed_article # 0
    /\ err = "TaggerError"
    /\ Len(trace) = 5
    /\ trace[5].op = "get_raw_text"
    /\ trace[5].id = failed_article
    /\ trace[4].text # ""

\* C10: _scan_dataset ignores every entry whose name does not begin with a
\* digit, raises nothing, and the registry's keys are the leading integers of
\* the other entries.
C10_AsStated ==
    (entry = "CorpusManager" /\ pc = "s_done")
    => (sres = "returned" /\ Keys(_storage) = LeadingInts)

====
